---- MODULE Spec2Model ----
(***************************************************************************)
(* Password Strength Analyzer (src/password_analyzer.py): the analysis     *)
(* engine PasswordAnalyzer, the Flask routes around it and the page's      *)
(* generator script.                                                       *)
(*                                                                         *)
(* Representation.  A Python str is a sequence of code points (integers).  *)
(* The entropy, a float rounded to 2 decimals, is kept in hundredths of a  *)
(* bit (1993 is 19.93).  The running score, a float that is a multiple of  *)
(* 0.25, is kept in quarter points until it is rounded.  A raised Python   *)
(* exception is an outcome record [exception |-> name].                    *)
(***************************************************************************)
EXTENDS Integers, Sequences, FiniteSets, TLC

VARIABLES
    hashSeed,          \* str hash seed of the running interpreter process
    common_passwords,  \* analyzer.common_passwords
    request,           \* the HTTP request being handled
    pc,                \* position of the /analyze handler
    analysis,          \* the /analyze handler's local `analysis`
    invoked,           \* analyzer.analyze_password was called for `request`
    response,          \* the HTTP response to `request`
    call,              \* the last direct call of an analyzer method
    threads            \* the analyze_password calls running concurrently

vars == <<hashSeed, common_passwords, request, pc, analysis, invoked, response,
          call, threads>>

(***************************************************************************)
(* Bounds of the model.                                                    *)
(***************************************************************************)
\* A password is the concatenation of at most MaxFrags fragments of Seeds.
MaxFrags == 2
\* Length of the long passwords (one of length MaxLong - 1, one of MaxLong).
MaxLong == 218
\* Number of threads that call the shared analyzer at the same time.
MaxThreads == 2

(***************************************************************************)
(* Characters and strings.                                                 *)
(***************************************************************************)
\* r'[a-z]'
IsLower(c) == c \in 97..122

\* r'[A-Z]'
IsUpper(c) == c \in 65..90

\* r'\d' on a str pattern: every Unicode decimal digit.  Of the non-ASCII
\* ones the model knows the ARABIC-INDIC digits U+0660..U+0669.
IsDigit(c) == c \in 48..57 \/ c \in 1632..1641

\* A narrower reading of "special": ASCII punctuation and space only.
IsSpecialAscii(c) == c \in 32..126 /\ ~(c \in 97..122 \/ c \in 65..90 \/ c \in 48..57)

\* r'[^a-zA-Z0-9]'
IsSpecial(c) == ~(c \in 97..122 \/ c \in 65..90 \/ c \in 48..57)

\* len(re.findall(cls, s))
CountMatches(Cls(_), s) == Cardinality({i \in DOMAIN s : Cls(s[i])})

\* bool(re.search(cls, s))
Search(Cls(_), s) == \E i \in DOMAIN s : Cls(s[i])

\* str.lower() of one character: A-Z, the Latin-1 capitals and KELVIN SIGN
\* (U+212A, whose lower case is 'k') change; every other character of the
\* model's alphabet is its own lower case.
LowerChar(c) ==
    IF c \in 65..90 \/ (c \in 192..222 /\ c # 215) THEN c + 32
    ELSE IF c = 8490 THEN 107
    ELSE c

\* str.lower()
lower(s) == [i \in DOMAIN s |-> LowerChar(s[i])]

\* sub in s
Contains(sub, s) ==
    \E i \in 0..(Len(s) - Len(sub)) : \A j \in 1..Len(sub) : s[i + j] = sub[j]

\* F(v), with v evaluated once before F is applied to it.
With(v, F(_)) == CHOOSE r \in {F(x) : x \in {v}} : TRUE

\* x in list
InList(x, list) == \E i \in DOMAIN list : list[i] = x

\* The elements of a set of integers in ascending order.
RECURSIVE Ascending(_)
Ascending(S) ==
    IF S = {} THEN <<>>
    ELSE LET m == CHOOSE x \in S : \A y \in S : x <= y
         IN  <<m>> \o Ascending(S \ {m})

Reverse(s) == [i \in DOMAIN s |-> s[Len(s) + 1 - i]]

\* The interpreter's str hash seeds (PYTHONHASHSEED is random by default, one
\* per process).  Two seeds stand for all of them.
HashSeeds == {0, 1}

\* list(set(chars)) under the hash seed `seed`: the iteration order of a set
\* of str is a function of the elements' hashes, that is of the seed.  Seed 0
\* stands for the seeds that iterate in ascending order, seed 1 for the rest.
HashOrder(S, seed) == IF seed = 0 THEN Ascending(S) ELSE Reverse(Ascending(S))

\* list(set(repeated)) in the running process
ListOfSet(S) == HashOrder(S, hashSeed)

(***************************************************************************)
(* PasswordAnalyzer: reference data.                                       *)
(***************************************************************************)
_load_common_passwords == <<
    <<112, 97, 115, 115, 119, 111, 114, 100>>,  \* 'password'
    <<49, 50, 51, 52, 53, 54>>,  \* '123456'
    <<49, 50, 51, 52, 53, 54, 55, 56, 57>>,  \* '123456789'
    <<113, 119, 101, 114, 116, 121>>,  \* 'qwerty'
    <<97, 98, 99, 49, 50, 51>>,  \* 'abc123'
    <<112, 97, 115, 115, 119, 111, 114, 100, 49, 50, 51>>,  \* 'password123'
    <<97, 100, 109, 105, 110>>,  \* 'admin'
    <<108, 101, 116, 109, 101, 105, 110>>,  \* 'letmein'
    <<119, 101, 108, 99, 111, 109, 101>>,  \* 'welcome'
    <<109, 111, 110, 107, 101, 121>>,  \* 'monkey'
    <<100, 114, 97, 103, 111, 110>>,  \* 'dragon'
    <<109, 97, 115, 116, 101, 114>>,  \* 'master'
    <<115, 104, 97, 100, 111, 119>>,  \* 'shadow'
    <<115, 117, 112, 101, 114, 109, 97, 110>>,  \* 'superman'
    <<109, 105, 99, 104, 97, 101, 108>>,  \* 'michael'
    <<102, 111, 111, 116, 98, 97, 108, 108>>,  \* 'football'
    <<98, 97, 115, 101, 98, 97, 108, 108>>,  \* 'baseball'
    <<108, 105, 118, 101, 114, 112, 111, 111, 108>>,  \* 'liverpool'
    <<106, 111, 114, 100, 97, 110>>,  \* 'jordan'
    <<112, 114, 105, 110, 99, 101, 115, 115>>  \* 'princess'
>>

keyboard_rows == <<
    <<113, 119, 101, 114, 116, 121, 117, 105, 111, 112>>,  \* 'qwertyuiop'
    <<97, 115, 100, 102, 103, 104, 106, 107, 108>>,  \* 'asdfghjkl'
    <<122, 120, 99, 118, 98, 110, 109>>,  \* 'zxcvbnm'
    <<49, 50, 51, 52, 53, 54, 55, 56, 57, 48>>  \* '1234567890'
>>

\* The dict's items in insertion order, each <<char, replacement>>:
\* '@': 'a', '3': 'e', '1': 'i', '0': 'o', '5': 's', '7': 't', '4': 'a',
\* '8': 'b', '!': 'i'
substitutions == <<
    <<64, 97>>, <<51, 101>>, <<49, 105>>, <<48, 111>>, <<53, 115>>,
    <<55, 116>>, <<52, 97>>, <<56, 98>>, <<33, 105>>
>>

common_words == <<
    <<112, 97, 115, 115, 119, 111, 114, 100>>,  \* 'password'
    <<97, 100, 109, 105, 110>>,  \* 'admin'
    <<117, 115, 101, 114>>,  \* 'user'
    <<108, 111, 103, 105, 110>>,  \* 'login'
    <<119, 101, 108, 99, 111, 109, 101>>,  \* 'welcome'
    <<104, 101, 108, 108, 111>>,  \* 'hello'
    <<119, 111, 114, 108, 100>>,  \* 'world'
    <<116, 101, 115, 116>>,  \* 'test'
    <<100, 101, 109, 111>>,  \* 'demo'
    <<115, 97, 109, 112, 108, 101>>  \* 'sample'
>>

\* r'(jan|feb|mar|apr|may|jun|jul|aug|sep|oct|nov|dec)'
month_names == {
    <<106, 97, 110>>, <<102, 101, 98>>, <<109, 97, 114>>, <<97, 112, 114>>,
    <<109, 97, 121>>, <<106, 117, 110>>, <<106, 117, 108>>, <<97, 117, 103>>,
    <<115, 101, 112>>, <<111, 99, 116>>, <<110, 111, 118>>, <<100, 101, 99>>
}

\* r'(monday|tuesday|wednesday|thursday|friday|saturday|sunday)'
day_names == {
    <<109, 111, 110, 100, 97, 121>>,
    <<116, 117, 101, 115, 100, 97, 121>>,
    <<119, 101, 100, 110, 101, 115, 100, 97, 121>>,
    <<116, 104, 117, 114, 115, 100, 97, 121>>,
    <<102, 114, 105, 100, 97, 121>>,
    <<115, 97, 116, 117, 114, 100, 97, 121>>,
    <<115, 117, 110, 100, 97, 121>>
}

(***************************************************************************)
(* PasswordAnalyzer: the analyzers.                                        *)
(***************************************************************************)
_analyze_characters(password) ==
    [ lowercase     |-> CountMatches(IsLower, password),
      uppercase     |-> CountMatches(IsUpper, password),
      digits        |-> CountMatches(IsDigit, password),
      special       |-> CountMatches(IsSpecial, password),
      has_lowercase |-> Search(IsLower, password),
      has_uppercase |-> Search(IsUpper, password),
      has_digits    |-> Search(IsDigit, password),
      has_special   |-> Search(IsSpecial, password),
      unique_chars  |-> Cardinality({password[i] : i \in DOMAIN password}) ]

_find_repeated_chars(password) ==
    ListOfSet({password[i] : i \in {j \in 1..(Len(password) - 1) :
                                        password[j] = password[j + 1]}})

\* A detector that takes a run in either direction.
_find_sequential_patterns_either_way(password) ==
    LET Runs(i) == \/ /\ password[i + 1] = password[i] + 1
                      /\ password[i + 2] = password[i] + 2
                   \/ /\ password[i + 1] = password[i] - 1
                      /\ password[i + 2] = password[i] - 2
        hits == SelectSeq([i \in 1..(Len(password) - 2) |-> i], Runs)
    IN  [k \in DOMAIN hits |-> SubSeq(password, hits[k], hits[k] + 2)]

\* The indices 1..n as a sequence (range(n), one-based).
Range(n) == [i \in 1..n |-> i]

_find_sequential_patterns(password) ==
    LET Ascends(i) == /\ password[i + 1] = password[i] + 1
                      /\ password[i + 2] = password[i] + 2
        hits == SelectSeq(Range(Len(password) - 2), Ascends)
    IN  [k \in DOMAIN hits |-> SubSeq(password, hits[k], hits[k] + 2)]

\* row[i:i+3] for i in range(len(row) - 2)
Windows(row) == [i \in 1..(Len(row) - 2) |-> SubSeq(row, i, i + 2)]

_find_keyboard_patterns(password) ==
    LET all == Windows(keyboard_rows[1]) \o Windows(keyboard_rows[2])
               \o Windows(keyboard_rows[3]) \o Windows(keyboard_rows[4])
        Find(low) == SelectSeq(all, LAMBDA pattern : Contains(lower(pattern), low))
    IN  With(lower(password), Find)

\* f"{char} -> {replacement}": the arrow of the source text is the three
\* characters U+201A U+00DC U+00ED.
Annotation(pair) == <<pair[1], 32, 8218, 220, 237, 32, pair[2]>>

_find_common_substitutions(password) ==
    LET Hit(pair) == \E i \in DOMAIN password : password[i] = pair[1]
        found == SelectSeq(substitutions, Hit)
    IN  [k \in DOMAIN found |-> Annotation(found[k])]

_find_dictionary_words(password) ==
    LET Find(low) == SelectSeq(common_words, LAMBDA word : Contains(lower(word), low))
    IN  With(lower(password), Find)

_analyze_patterns(password) ==
    [ repeated_chars       |-> _find_repeated_chars(password),
      sequential           |-> _find_sequential_patterns(password),
      keyboard_patterns    |-> _find_keyboard_patterns(password),
      common_substitutions |-> _find_common_substitutions(password),
      dictionary_words     |-> _find_dictionary_words(password) ]

_contains_personal_info(password) ==
    LET Matches(low) ==
            \/ \E i \in 1..(Len(low) - 3) : \A j \in 0..3 : IsDigit(low[i + j])
            \/ \E m \in month_names : Contains(m, low)
            \/ \E d \in day_names : Contains(d, low)
    IN  With(lower(password), Matches)

_check_pwned_passwords(password) == InList(lower(password), common_passwords)

_meets_basic_requirements(password) ==
    LET requirements ==
            [ min_length    |-> Len(password) >= 8,
              has_uppercase |-> Search(IsUpper, password),
              has_lowercase |-> Search(IsLower, password),
              has_digit     |-> Search(IsDigit, password),
              has_special   |-> Search(IsSpecial, password) ]
    IN  [ min_length    |-> requirements.min_length,
          has_uppercase |-> requirements.has_uppercase,
          has_lowercase |-> requirements.has_lowercase,
          has_digit     |-> requirements.has_digit,
          has_special   |-> requirements.has_special,
          all_met       |-> \A k \in DOMAIN requirements : requirements[k] ]

\* Membership in the list tested without lower-casing the password.
_security_checks_case_sensitive(password) ==
    [ is_common                |-> InList(password, common_passwords),
      contains_personal_info   |-> _contains_personal_info(password),
      pwned_check              |-> _check_pwned_passwords(password),
      meets_basic_requirements |-> _meets_basic_requirements(password) ]

_security_checks(password) ==
    [ is_common                |-> InList(lower(password), common_passwords),
      contains_personal_info   |-> _contains_personal_info(password),
      pwned_check              |-> _check_pwned_passwords(password),
      meets_basic_requirements |-> _meets_basic_requirements(password) ]

(***************************************************************************)
(* PasswordAnalyzer: entropy and crack time.                               *)
(***************************************************************************)
\* math.log2(charset_size) to 9 decimals, as two limbs: the first four
\* decimals (in 1/10^4) and the next five (in 1/10^9).  The eleven sizes
\* are the sums the four charset contributions can make.
Log2Hi(n) ==
    CASE n = 10 -> 33219 [] n = 26 -> 47004 [] n = 32 -> 50000
      [] n = 36 -> 51699 [] n = 42 -> 53923 [] n = 52 -> 57004
      [] n = 58 -> 58579 [] n = 62 -> 59541 [] n = 68 -> 60874
      [] n = 84 -> 63923 [] n = 94 -> 65545

Log2Lo(n) ==
    CASE n = 10 -> 28095 [] n = 26 -> 39718 [] n = 32 -> 0
      [] n = 36 -> 25001 [] n = 42 -> 17423 [] n = 52 -> 39718
      [] n = 58 -> 80995 [] n = 62 -> 96310 [] n = 68 -> 62841
      [] n = 84 -> 17423 [] n = 94 -> 88852

\* round(length * math.log2(charset_size), 2), in hundredths of a bit
RoundedEntropy(length, charset_size) ==
    LET hi == length * Log2Hi(charset_size)
        lo == length * Log2Lo(charset_size)
    IN  (hi \div 100) + (((hi % 100) * 100000 + lo + 5000000) \div 10000000)

charset_size_of(password) ==
    (IF Search(IsLower, password) THEN 26 ELSE 0)
    + (IF Search(IsUpper, password) THEN 26 ELSE 0)
    + (IF Search(IsDigit, password) THEN 10 ELSE 0)
    + (IF Search(IsSpecial, password) THEN 32 ELSE 0)

\* An entropy that counts the charset once, whatever the length.
_calculate_entropy_of_charset(password) ==
    LET charset_size == charset_size_of(password)
    IN  IF charset_size = 0 THEN 0 ELSE RoundedEntropy(1, charset_size)

\* In hundredths of a bit.
_calculate_entropy(password) ==
    LET charset_size == charset_size_of(password)
    IN  IF charset_size = 0 THEN 0
        ELSE RoundedEntropy(Len(password), charset_size)

\* The argument is the entropy (hundredths of a bit) that `seconds` was
\* computed from, seconds = 2 ** entropy / (2 * 1e9): seconds < 1 iff
\* entropy <= 30.89, < 60 iff <= 36.80, < 3600 iff <= 42.71, < 86400 iff
\* <= 47.29, < 31536000 iff <= 55.80.  The result is the unit of the
\* formatted duration; the number before it (one decimal) is left out.
_format_time(entropy) ==
    IF entropy < 3090 THEN "Instant"
    ELSE IF entropy < 3681 THEN "seconds"
    ELSE IF entropy < 4272 THEN "minutes"
    ELSE IF entropy < 4730 THEN "hours"
    ELSE IF entropy < 5581 THEN "days"
    ELSE "years"

\* 2 ** entropy is an int to the power of a float, a float power: it raises
\* OverflowError when the result exceeds the largest double, that is when
\* entropy >= 1024.
_estimate_crack_time(password) ==
    LET entropy == _calculate_entropy(password)
    IN  IF entropy >= 102400 THEN [exception |-> "OverflowError"]
        ELSE [exception |-> "none", value |-> _format_time(entropy)]

(***************************************************************************)
(* PasswordAnalyzer: score, level, recommendations.                        *)
(***************************************************************************)
Max(a, b) == IF a >= b THEN a ELSE b
Min(a, b) == IF a <= b THEN a ELSE b

\* round(x) of a float x = q / 4: to the nearest integer, a tie to the even one.
PyRound4(q) ==
    LET whole == q \div 4
        rest  == q % 4
    IN  IF rest < 2 THEN whole
        ELSE IF rest > 2 THEN whole + 1
        ELSE IF whole % 2 = 0 THEN whole ELSE whole + 1

\* A total that takes 10 points off a common password.
RawScore4CommonPenalty(report) ==
    LET chars == report.character_analysis
        checks == report.security_checks
        patterns == report.pattern_analysis
    IN  4 * (IF report.length >= 12 THEN 25
             ELSE IF report.length >= 8 THEN 15
             ELSE IF report.length >= 6 THEN 10
             ELSE IF report.length >= 4 THEN 5
             ELSE 0)
        + 25 * Cardinality({k \in {"has_lowercase", "has_uppercase",
                                   "has_digits", "has_special"} : chars[k]})
        + 4 * (IF report.entropy >= 6000 THEN 20
               ELSE IF report.entropy >= 4000 THEN 15
               ELSE IF report.entropy >= 2500 THEN 10
               ELSE IF report.entropy >= 1500 THEN 5
               ELSE 0)
        + 4 * (IF ~checks.is_common THEN 10 ELSE -10)
        + 4 * (IF ~checks.pwned_check THEN 10 ELSE 0)
        + 4 * (IF checks.meets_basic_requirements.all_met THEN 10 ELSE 0)
        - 4 * (IF patterns.repeated_chars # <<>> THEN 5 ELSE 0)
        - 4 * (IF patterns.sequential # <<>> THEN 10 ELSE 0)
        - 4 * (IF patterns.keyboard_patterns # <<>> THEN 10 ELSE 0)
        - 4 * (IF patterns.dictionary_words # <<>> THEN 15 ELSE 0)

\* The value of `score` before the return statement, in quarter points.
RawScore4(report) ==
    LET length == report.length
        chars == report.character_analysis
        char_types == (IF chars.has_lowercase THEN 1 ELSE 0)
                      + (IF chars.has_uppercase THEN 1 ELSE 0)
                      + (IF chars.has_digits THEN 1 ELSE 0)
                      + (IF chars.has_special THEN 1 ELSE 0)
        entropy == report.entropy
        checks == report.security_checks
        patterns == report.pattern_analysis
    IN  4 * (IF length >= 12 THEN 25
             ELSE IF length >= 8 THEN 15
             ELSE IF length >= 6 THEN 10
             ELSE IF length >= 4 THEN 5
             ELSE 0)
        + char_types * 25
        + 4 * (IF entropy >= 6000 THEN 20
               ELSE IF entropy >= 4000 THEN 15
               ELSE IF entropy >= 2500 THEN 10
               ELSE IF entropy >= 1500 THEN 5
               ELSE 0)
        + 4 * (IF ~checks.is_common THEN 10 ELSE 0)
        + 4 * (IF ~checks.pwned_check THEN 10 ELSE 0)
        + 4 * (IF checks.meets_basic_requirements.all_met THEN 10 ELSE 0)
        - 4 * (IF patterns.repeated_chars # <<>> THEN 5 ELSE 0)
        - 4 * (IF patterns.sequential # <<>> THEN 10 ELSE 0)
        - 4 * (IF patterns.keyboard_patterns # <<>> THEN 10 ELSE 0)
        - 4 * (IF patterns.dictionary_words # <<>> THEN 15 ELSE 0)

\* A score that also takes 10 points off for a personal-info finding.
_calculate_strength_score_personal(report) ==
    Max(0, Min(100, PyRound4(RawScore4(report)
        - (IF report.security_checks.contains_personal_info THEN 40 ELSE 0))))

_calculate_strength_score(report) ==
    Max(0, Min(100, PyRound4(RawScore4(report))))

_get_strength_level(score) ==
    IF score >= 80 THEN "Very Strong"
    ELSE IF score >= 60 THEN "Strong"
    ELSE IF score >= 40 THEN "Moderate"
    ELSE IF score >= 20 THEN "Weak"
    ELSE "Very Weak"

\* Recommendations whose two length advisories are independent tests.
_get_recommendations_two_lengths(report) ==
    LET chars == report.character_analysis
        patterns == report.pattern_analysis
        When(cond, text) == IF cond THEN <<text>> ELSE <<>>
        recommendations ==
            When(report.length < 8, "Use at least 8 characters")
            \o When(report.length < 12,
                    "Consider using 12+ characters for better security")
            \o When(~chars.has_uppercase, "Add uppercase letters")
            \o When(~chars.has_lowercase, "Add lowercase letters")
            \o When(~chars.has_digits, "Add numbers")
            \o When(~chars.has_special, "Add special characters (!@#$%^&*)")
            \o When(report.security_checks.is_common, "Avoid common passwords")
            \o When(patterns.repeated_chars # <<>>, "Avoid repeated characters")
            \o When(patterns.sequential # <<>>,
                    "Avoid sequential patterns (abc, 123)")
            \o When(patterns.keyboard_patterns # <<>>,
                    "Avoid keyboard patterns (qwerty, asdf)")
            \o When(patterns.dictionary_words # <<>>, "Avoid dictionary words")
    IN  IF recommendations = <<>>
        THEN <<"Excellent password! Consider changing it regularly.">>
        ELSE recommendations

_get_recommendations(report) ==
    LET chars == report.character_analysis
        patterns == report.pattern_analysis
        When(cond, text) == IF cond THEN <<text>> ELSE <<>>
        recommendations ==
            (IF report.length < 8 THEN <<"Use at least 8 characters">>
             ELSE IF report.length < 12
                  THEN <<"Consider using 12+ characters for better security">>
                  ELSE <<>>)
            \o When(~chars.has_uppercase, "Add uppercase letters")
            \o When(~chars.has_lowercase, "Add lowercase letters")
            \o When(~chars.has_digits, "Add numbers")
            \o When(~chars.has_special, "Add special characters (!@#$%^&*)")
            \o When(report.security_checks.is_common, "Avoid common passwords")
            \o When(patterns.repeated_chars # <<>>, "Avoid repeated characters")
            \o When(patterns.sequential # <<>>,
                    "Avoid sequential patterns (abc, 123)")
            \o When(patterns.keyboard_patterns # <<>>,
                    "Avoid keyboard patterns (qwerty, asdf)")
            \o When(patterns.dictionary_words # <<>>, "Avoid dictionary words")
    IN  IF recommendations = <<>>
        THEN <<"Excellent password! Consider changing it regularly.">>
        ELSE recommendations

(***************************************************************************)
(* PasswordAnalyzer.analyze_password.  The dict literal evaluates its      *)
(* values in order; _estimate_crack_time is the only one that can raise,   *)
(* and then the call raises with nothing else done.                        *)
(***************************************************************************)
\* analysis['strength_score'] = self._calculate_strength_score(analysis)
WithScore(report) ==
    [report EXCEPT !.strength_score = _calculate_strength_score(report)]

\* analysis['strength_level'] = self._get_strength_level(analysis['strength_score'])
WithLevel(report) ==
    [report EXCEPT !.strength_level = _get_strength_level(report.strength_score)]

\* analysis['recommendations'] = self._get_recommendations(analysis)
WithRecommendations(report) ==
    [report EXCEPT !.recommendations = _get_recommendations(report)]

analyze_password(password) ==
    LET crack_time == _estimate_crack_time(password)
        initial ==
            [ password           |-> password,
              length             |-> Len(password),
              strength_score     |-> 0,
              strength_level     |-> "Very Weak",
              character_analysis |-> _analyze_characters(password),
              pattern_analysis   |-> _analyze_patterns(password),
              security_checks    |-> _security_checks(password),
              entropy            |-> _calculate_entropy(password),
              crack_time         |-> crack_time.value,
              recommendations    |-> <<>> ]
    IN  IF crack_time.exception # "none" THEN crack_time
        ELSE [ exception |-> "none",
               value |-> With(With(With(initial, WithScore), WithLevel),
                              WithRecommendations) ]

(***************************************************************************)
(* The Flask application and the page's script.                            *)
(***************************************************************************)
\* A mask of fixed width.
MaskFixed(password) == [i \in 1..8 |-> 42]

\* '*' * len(password)
Mask(password) == [i \in 1..Len(password) |-> 42]

\* The rules of app.url_map: <<rule, method>>.
url_map == {<<"/", "GET">>, <<"/analyze", "POST">>}

\* The characters generatePassword draws from.
upper_chars == <<65, 66, 67, 68, 69, 70, 71, 72, 73, 74, 75, 76, 77, 78, 79,
                 80, 81, 82, 83, 84, 85, 86, 87, 88, 89, 90>>
lower_chars == <<97, 98, 99, 100, 101, 102, 103, 104, 105, 106, 107, 108, 109,
                 110, 111, 112, 113, 114, 115, 116, 117, 118, 119, 120, 121,
                 122>>
digit_chars == <<48, 49, 50, 51, 52, 53, 54, 55, 56, 57>>
symbol_chars == <<33, 64, 35, 36, 37, 94, 38, 42>>  \* '!@#$%^&*'
chars == upper_chars \o lower_chars \o digit_chars \o symbol_chars

\* Math.floor(Math.random() * n) + 1 for the k-th draw of a run that starts
\* with the generator in state r.  Math.random is a deterministic generator
\* behind a hidden state; this one stands for it.
RandomIndex(r, k, n) == (((r + 1) * (k + 2) + r * r) % n) + 1

\* The array shuffled by sort(() => Math.random() - 0.5): some permutation
\* of it.  Of the permutations the model takes the rotations.
Shuffled(s, r) ==
    LET shift == RandomIndex(r, 0, Len(s)) - 1
    IN  [i \in DOMAIN s |-> s[((i - 1 + shift) % Len(s)) + 1]]

\* The password generatePassword() puts into the input field.
generatePassword(r) ==
    LET first == << upper_chars[RandomIndex(r, 1, 26)],
                    lower_chars[RandomIndex(r, 2, 26)],
                    digit_chars[RandomIndex(r, 3, 10)],
                    symbol_chars[RandomIndex(r, 4, 8)] >>
        fill == [i \in 1..12 |-> chars[RandomIndex(r, 4 + i, Len(chars))]]
    IN  Shuffled(first \o fill, r)

(***************************************************************************)
(* The inputs of the model.                                                *)
(***************************************************************************)
Seeds == {
    <<97>>,  \* 'a'
    <<42>>,  \* '*'
    <<233>>,  \* e with acute accent (U+00E9)
    <<1635>>,  \* ARABIC-INDIC DIGIT THREE (U+0663)
    <<49, 50, 51, 52, 53, 54>>,  \* '123456'
    <<112, 97, 115, 115, 119, 111, 114, 100>>,  \* 'password'
    <<83, 117, 112, 101, 114, 77, 97, 110>>,  \* 'SuperMan'
    <<72, 101, 108, 108, 111, 49, 50, 51, 33>>,  \* 'Hello123!'
    <<77, 121, 83, 51, 99, 117, 114, 51, 80, 64, 115, 115, 119, 48, 114, 100,
      33, 50, 48, 50, 52>>,  \* 'MyS3cur3P@ssw0rd!2024'
    <<97, 98, 99, 88, 89, 90, 49, 50, 51>>,  \* 'abcXYZ123'
    <<99, 98, 97>>,  \* 'cba'
    <<113, 119, 101, 114, 116, 121>>,  \* 'qwerty'
    <<97, 97, 98, 98>>  \* 'aabb'
}

\* The concatenations of exactly k seeds.
RECURSIVE Frags(_)
Frags(k) ==
    IF k = 0 THEN {<<>>}
    ELSE {p \o s : p \in Frags(k - 1), s \in Seeds}

\* s repeated up to the length n
Cycle(s, n) == [i \in 1..n |-> s[((i - 1) % Len(s)) + 1]]

\* 'a' and 'aA1!' repeated up to MaxLong - 1 and MaxLong characters
LongPasswords ==
    {Cycle(s, n) : s \in {<<97>>, <<97, 65, 49, 33>>}, n \in {MaxLong - 1, MaxLong}}

\* 'abcd' (two overlapping ascending windows), 'password123' (a common
\* password with a repeated character, a sequential run, a keyboard pattern
\* and a dictionary word) and 'Xk7#mQ2$vL9!' (nothing to recommend)
ExtraPasswords ==
    { <<97, 98, 99, 100>>,
      <<112, 97, 115, 115, 119, 111, 114, 100, 49, 50, 51>>,
      <<88, 107, 55, 35, 109, 81, 50, 36, 118, 76, 57, 33>> }

\* The strings the model passes to the analyzer: the empty string is one.
Passwords ==
    UNION {Frags(k) : k \in 0..MaxFrags} \cup LongPasswords \cup ExtraPasswords

\* The states of the page's random number generator.
MaxRandomState == 3

\* The JSON bodies posted to /analyze: an object without the key, or with a
\* string under it.
Bodies ==
    {[has_password |-> FALSE]}
    \cup {[has_password |-> TRUE, password |-> p] : p \in Passwords}

\* The query strings of GET /generate: no length, or a length.
GenerateArgs ==
    {[has_length |-> FALSE]} \cup {[has_length |-> TRUE, length |-> n] : n \in {8, 20}}

NoRequest == [method |-> "none"]
NoResponse == [status |-> 0]
NoAnalysis == [exception |-> "unset"]
NoCall == [fn |-> "none"]

\* The threads of the server (app.run serves each request in a thread of
\* its own) that call analyzer.analyze_password.
Threads == 1..MaxThreads

\* The passwords they analyse: 'password', 'SuperMan', 'aabb' and the long
\* run of 'a'.
ThreadPasswords ==
    { <<112, 97, 115, 115, 119, 111, 114, 100>>,
      <<83, 117, 112, 101, 114, 77, 97, 110>>,
      <<97, 97, 98, 98>>,
      Cycle(<<97>>, MaxLong) }

\* A thread that is not inside analyze_password.
IdleThread == [pc |-> "idle"]

(***************************************************************************)
(* The state machine.                                                      *)
(***************************************************************************)
Init ==
    /\ hashSeed \in HashSeeds
    /\ common_passwords = _load_common_passwords   \* analyzer = PasswordAnalyzer()
    /\ request = NoRequest
    /\ pc = "idle"
    /\ analysis = NoAnalysis
    /\ invoked = FALSE
    /\ response = NoResponse
    /\ call = NoCall
    /\ threads = [t \in Threads |-> IdleThread]

\* Nothing is being handled and the callers hold no result: the model
\* follows one exchange (a request, or a direct call and its repetitions)
\* at a time.
Quiet ==
    /\ pc = "idle"
    /\ request = NoRequest
    /\ response = NoResponse
    /\ call = NoCall

\* data.get('password', '')
PasswordOf(body) == IF body.has_password THEN body.password ELSE <<>>

\* POST /analyze arrives (Next: when the model is Quiet); the handler runs up to the call of the analyzer:
\* get_json, data.get, and the rejection of an empty password.
AnalyzeReceive(body) ==
    /\ request' = [method |-> "POST", path |-> "/analyze", json |-> body]
    /\ invoked' = FALSE
    /\ IF PasswordOf(body) = <<>>
       THEN /\ response' = [status |-> 400,
                            body |-> [error |-> "Password is required"]]
            /\ pc' = "idle"
       ELSE /\ response' = NoResponse
            /\ pc' = "evaluate"
    /\ UNCHANGED <<threads, hashSeed, common_passwords, analysis, call>>

\* analysis = analyzer.analyze_password(password); an exception it raises is
\* not caught by the handler, and Flask answers 500.
AnalyzeEvaluate ==
    /\ pc = "evaluate"
    /\ invoked' = TRUE
    /\ \E result \in {analyze_password(PasswordOf(request.json))} :
           IF result.exception # "none"
           THEN /\ analysis' = result
                /\ response' = [status |-> 500,
                                body |-> [error |-> result.exception]]
                /\ pc' = "idle"
           ELSE /\ analysis' = result
                /\ response' = NoResponse
                /\ pc' = "mask"
    /\ UNCHANGED <<threads, hashSeed, common_passwords, request, call>>

\* A handler that removes the password from the report.
AnalyzeMaskRemoving ==
    /\ pc = "mask"
    /\ analysis' = [analysis EXCEPT
                       !.value = [k \in (DOMAIN @) \ {"password"} |-> @[k]]]
    /\ pc' = "respond"
    /\ UNCHANGED <<threads, hashSeed, common_passwords, request, invoked, response, call>>

\* analysis['password'] = '*' * len(password)
AnalyzeMask ==
    /\ pc = "mask"
    /\ analysis' = [analysis EXCEPT
                       !.value.password = Mask(PasswordOf(request.json))]
    /\ pc' = "respond"
    /\ UNCHANGED <<threads, hashSeed, common_passwords, request, invoked, response, call>>

\* return jsonify(analysis)
AnalyzeRespond ==
    /\ pc = "respond"
    /\ response' = [status |-> 200, body |-> analysis.value]
    /\ analysis' = NoAnalysis
    /\ pc' = "idle"
    /\ UNCHANGED <<threads, hashSeed, common_passwords, request, invoked, call>>

\* GET /: the page.
Index ==
    /\ Quiet
    /\ request' = [method |-> "GET", path |-> "/"]
    /\ response' = [status |-> 200, body |-> [html |-> "HTML_TEMPLATE"]]
    /\ UNCHANGED <<threads, hashSeed, common_passwords, pc, analysis, invoked, call>>

\* GET /generate: the application registers the rules of url_map only, and
\* Flask answers a request that matches none of them with 404 Not Found.
Generate(args) ==
    /\ request' = [method |-> "GET", path |-> "/generate", args |-> args]
    /\ response' = IF <<"/generate", "GET">> \in url_map
                   THEN [status |-> 200,
                         body |-> [password |-> generatePassword(0)]]
                   ELSE [status |-> 404, body |-> [error |-> "Not Found"]]
    /\ UNCHANGED <<threads, hashSeed, common_passwords, pc, analysis, invoked, call>>

\* The page's generatePassword(): it fills the input field and calls
\* analyzePassword(), which posts the field's value to /analyze.
ClientGeneratePassword(r) ==
    AnalyzeReceive([has_password |-> TRUE, password |-> generatePassword(r)])

\* analyzer.analyze_password(p), called directly (as the tests do).
CallAnalyzePassword(p) ==
    /\ call' = [fn |-> "analyze_password", arg |-> p, seed |-> hashSeed,
                repeated |-> FALSE, result |-> analyze_password(p)]
    /\ UNCHANGED <<threads, hashSeed, common_passwords, request, pc, analysis, invoked,
                   response>>

\* analyzer._calculate_entropy(p), called directly (as the tests do).
CallCalculateEntropy(p) ==
    /\ call' = [fn |-> "_calculate_entropy", arg |-> p, seed |-> hashSeed,
                repeated |-> FALSE,
                result |-> [exception |-> "none",
                            value |-> _calculate_entropy(p)]]
    /\ UNCHANGED <<threads, hashSeed, common_passwords, request, pc, analysis, invoked,
                   response>>

\* The caller of analyze_password calls it again with the same password.
RepeatCall ==
    /\ pc = "idle"
    /\ call.fn = "analyze_password"
    /\ call' = [call EXCEPT !.seed = hashSeed,
                            !.repeated = TRUE,
                            !.result = analyze_password(call.arg)]
    /\ UNCHANGED <<threads, hashSeed, common_passwords, request, pc, analysis, invoked,
                   response>>

\* The process ends and the program is started again: a new interpreter
\* with a new hash seed builds the module-level analyzer anew.  A request
\* in the handler is lost; what the callers sent and received stays with
\* them.
Restart ==
    /\ hashSeed' \in HashSeeds
    /\ common_passwords' = _load_common_passwords
    /\ pc' = "idle"
    /\ analysis' = NoAnalysis
    /\ threads' = [t \in Threads |-> IdleThread]
    /\ UNCHANGED <<request, invoked, response, call>>

\* The exchange is over.
Forget ==
    /\ pc = "idle"
    /\ ~Quiet
    /\ request' = NoRequest
    /\ response' = NoResponse
    /\ call' = NoCall
    /\ invoked' = FALSE
    /\ UNCHANGED <<threads, hashSeed, common_passwords, pc, analysis>>

\* A new exchange starts only when the model is Quiet.
PostAnalyze == Quiet /\ \E body \in Bodies : AnalyzeReceive(body)

GetGenerate == Quiet /\ \E args \in GenerateArgs : Generate(args)

ClickGenerate == Quiet /\ \E r \in 0..MaxRandomState : ClientGeneratePassword(r)

TestAnalyzePassword == Quiet /\ \E p \in Passwords : CallAnalyzePassword(p)

TestCalculateEntropy == Quiet /\ \E p \in Passwords : CallCalculateEntropy(p)

Next ==
    \/ PostAnalyze
    \/ AnalyzeEvaluate
    \/ AnalyzeMask
    \/ AnalyzeRespond
    \/ Index
    \/ GetGenerate
    \/ ClickGenerate
    \/ TestAnalyzePassword
    \/ TestCalculateEntropy
    \/ RepeatCall
    \/ Restart
    \/ Forget

Spec == Init /\ [][Next]_vars

(***************************************************************************)
(* Concurrent calls of analyzer.analyze_password.  Each thread runs the    *)
(* method on locals of its own; self.common_passwords is the one object    *)
(* the calls share, read once for 'is_common' and once for 'pwned_check'.  *)
(* A step of a thread is the code between two reads of the shared list.    *)
(***************************************************************************)
\* What the threads' steps leave alone.
Sequential == <<hashSeed, request, pc, analysis, invoked, response, call>>

\* The locals of a thread with more of them set.
Extended(locals, more) == more @@ locals

\* analyze_password(password) is entered: the dict literal is evaluated up
\* to 'pattern_analysis'.
ThreadEnter(t, p) ==
    /\ threads[t].pc = "idle"
    /\ threads' = [threads EXCEPT ![t] =
                      [ pc                 |-> "is_common",
                        password           |-> p,
                        character_analysis |-> _analyze_characters(p),
                        pattern_analysis   |-> _analyze_patterns(p) ]]
    /\ UNCHANGED <<Sequential, common_passwords>>

\* A list that learns the passwords it is asked about.
ThreadIsCommonRemembering(t) ==
    /\ threads[t].pc = "is_common"
    /\ threads' = [threads EXCEPT ![t] = Extended(@,
                      [ pc        |-> "pwned_check",
                        is_common |-> InList(lower(threads[t].password),
                                             common_passwords),
                        contains_personal_info |->
                            _contains_personal_info(threads[t].password) ])]
    /\ common_passwords' = Append(common_passwords, lower(threads[t].password))
    /\ UNCHANGED Sequential

\* _security_checks: 'is_common': password.lower() in self.common_passwords,
\* then 'contains_personal_info'.
ThreadIsCommon(t) ==
    /\ threads[t].pc = "is_common"
    /\ threads' = [threads EXCEPT ![t] = Extended(@,
                      [ pc        |-> "pwned_check",
                        is_common |-> InList(lower(threads[t].password),
                                             common_passwords),
                        contains_personal_info |->
                            _contains_personal_info(threads[t].password) ])]
    /\ UNCHANGED <<Sequential, common_passwords>>

\* _security_checks: 'pwned_check' (the second read of the list), then
\* 'meets_basic_requirements'.
ThreadPwnedCheck(t) ==
    /\ threads[t].pc = "pwned_check"
    /\ threads' = [threads EXCEPT ![t] = Extended(@,
                      [ pc          |-> "entropy",
                        pwned_check |-> _check_pwned_passwords(threads[t].password),
                        meets_basic_requirements |->
                            _meets_basic_requirements(threads[t].password) ])]
    /\ UNCHANGED <<Sequential, common_passwords>>

\* 'entropy' and 'crack_time': the latter may raise, and then the call is
\* over.
ThreadEntropy(t) ==
    /\ threads[t].pc = "entropy"
    /\ \E crack_time \in {_estimate_crack_time(threads[t].password)} :
          threads' = [threads EXCEPT ![t] =
              IF crack_time.exception # "none"
              THEN [ pc |-> "returned", password |-> @.password,
                     result |-> crack_time ]
              ELSE Extended(@,
                      [ pc         |-> "score",
                        entropy    |-> _calculate_entropy(threads[t].password),
                        crack_time |-> crack_time.value ])]
    /\ UNCHANGED <<Sequential, common_passwords>>

\* The dict is complete; score, level and recommendations are set and the
\* report is returned.
ThreadFinish(t) ==
    /\ threads[t].pc = "score"
    /\ LET locals == threads[t]
           initial ==
               [ password           |-> locals.password,
                 length             |-> Len(locals.password),
                 strength_score     |-> 0,
                 strength_level     |-> "Very Weak",
                 character_analysis |-> locals.character_analysis,
                 pattern_analysis   |-> locals.pattern_analysis,
                 security_checks    |->
                     [ is_common                |-> locals.is_common,
                       contains_personal_info   |-> locals.contains_personal_info,
                       pwned_check              |-> locals.pwned_check,
                       meets_basic_requirements |-> locals.meets_basic_requirements ],
                 entropy            |-> locals.entropy,
                 crack_time         |-> locals.crack_time,
                 recommendations    |-> <<>> ]
       IN  threads' = [threads EXCEPT ![t] =
              [ pc |-> "returned", password |-> locals.password,
                result |-> [ exception |-> "none",
                             value |-> With(With(With(initial, WithScore),
                                                 WithLevel),
                                            WithRecommendations) ] ]]
    /\ UNCHANGED <<Sequential, common_passwords>>

\* The caller has the outcome; the thread is free again.
ThreadLeave(t) ==
    /\ threads[t].pc = "returned"
    /\ threads' = [threads EXCEPT ![t] = IdleThread]
    /\ UNCHANGED <<Sequential, common_passwords>>

Enters == \E t \in Threads, p \in ThreadPasswords : ThreadEnter(t, p)

ReadsIsCommon == \E t \in Threads : ThreadIsCommon(t)

ReadsPwnedCheck == \E t \in Threads : ThreadPwnedCheck(t)

ComputesEntropy == \E t \in Threads : ThreadEntropy(t)

Finishes == \E t \in Threads : ThreadFinish(t)

Leaves == \E t \in Threads : ThreadLeave(t)

ConcurrentNext ==
    \/ Enters
    \/ ReadsIsCommon
    \/ ReadsPwnedCheck
    \/ ComputesEntropy
    \/ Finishes
    \/ Leaves

ConcurrentSpec == Init /\ [][ConcurrentNext]_vars

(***************************************************************************)
(* Properties.                                                             *)
(***************************************************************************)
\* The call last made is analyzer.analyze_password(...).
Analyzed == call.fn = "analyze_password"

\* ... and it returned a report.
Reported == Analyzed /\ call.result.exception = "none"

\* The request handled is a POST to /analyze.
IsAnalyzeRequest == request.method = "POST" /\ request.path = "/analyze"

\* Which of the four character categories a string has.
Categories(s) ==
    [ lowercase |-> \E i \in DOMAIN s : s[i] \in 97..122,
      uppercase |-> \E i \in DOMAIN s : s[i] \in 65..90,
      digit     |-> \E i \in DOMAIN s : IsDigit(s[i]),
      special   |-> \E i \in DOMAIN s : s[i] \notin (97..122) \cup (65..90) \cup (48..57) ]

HasAllCategories(s) ==
    /\ Categories(s).lowercase
    /\ Categories(s).uppercase
    /\ Categories(s).digit
    /\ Categories(s).special

\* C1: for every non-empty password analyze_password returns a score that
\* is an integer in [0,100] and the level that is the band of that score.
C1_ScoreInRangeAndBanded ==
    (Analyzed /\ call.arg # <<>>) =>
        /\ call.result.exception = "none"
        /\ call.result.value.strength_score \in 0..100
        /\ call.result.value.strength_level =
              (LET score == call.result.value.strength_score
               IN  IF score >= 80 THEN "Very Strong"
                   ELSE IF score >= 60 THEN "Strong"
                   ELSE IF score >= 40 THEN "Moderate"
                   ELSE IF score >= 20 THEN "Weak"
                   ELSE "Very Weak")

\* C2: analyze_password is total: whatever the string, the call returns a
\* report and raises nothing.
C2_NeverRaises == Analyzed => call.result.exception = "none"

\* C3: two calls of analyze_password with the same password give identical
\* reports, the order of every list included.
C3_Deterministic ==
    [][(Analyzed /\ call'.fn = "analyze_password" /\ call'.arg = call.arg)
          => call'.result = call.result]_vars

\* The outcome with repeated_chars taken as a set.
UpToRepeatedOrder(result) ==
    IF result.exception # "none" THEN result
    ELSE [result EXCEPT !.value.pattern_analysis.repeated_chars =
             {@[i] : i \in DOMAIN @}]

\* What the code does keep: two calls with the same password made in the
\* same interpreter process give identical outcomes, the order of every list
\* included; two calls made in different processes give outcomes that are
\* identical but for the order of repeated_chars.
DeterministicInProcess ==
    [][(Analyzed /\ call'.fn = "analyze_password" /\ call'.arg = call.arg)
          => /\ call'.seed = call.seed => call'.result = call.result
             /\ UpToRepeatedOrder(call'.result) = UpToRepeatedOrder(call.result)]_vars

\* A repeated call whose report lists two repeated characters.
RepeatedWithTwoRepeatedChars ==
    /\ Reported
    /\ call.repeated
    /\ Len(call.result.value.pattern_analysis.repeated_chars) >= 2

\* C4: /analyze answers 400 to an absent or empty password, without calling
\* the analyzer, and 200 with a report to every other request.
C4_OnlyEmptyRejected ==
    (IsAnalyzeRequest /\ response # NoResponse) =>
        IF PasswordOf(request.json) = <<>>
        THEN response.status = 400 /\ ~invoked
        ELSE /\ response.status = 200
             /\ invoked
             /\ "strength_score" \in DOMAIN response.body

C6_GenerateReturnsRequestedLength ==
    (request.method = "GET" /\ request.path = "/generate"
     /\ response # NoResponse) =>
        /\ response.status = 200
        /\ Len(response.body.password) =
              (IF request.args.has_length THEN request.args.length ELSE 16)
        /\ HasAllCategories(response.body.password)

\* The password's lower-cased form is in the built-in list.
IsListed(s) == \E i \in DOMAIN _load_common_passwords :
                  _load_common_passwords[i] = lower(s)

\* C7 as stated: a password whose lower-cased form is in the common-password
\* list is reported common and scores at most 20.
C7_CommonScoresAtMost20 ==
    (Reported /\ IsListed(call.arg)) =>
        /\ call.result.value.security_checks.is_common
        /\ call.result.value.strength_score <= 20

\* C7 as amended: such a password is reported common and scores at most 42;
\* '123456' scores at most 20.
C7_CommonScoresAtMost42 ==
    (Reported /\ IsListed(call.arg)) =>
        /\ call.result.value.security_checks.is_common
        /\ call.result.value.strength_score <= 42
        /\ call.arg = <<49, 50, 51, 52, 53, 54>>
              => call.result.value.strength_score <= 20

\* 'SuperMan' is reported common and scores 42.
C7_Witness ==
    /\ Reported
    /\ call.arg = <<83, 117, 112, 101, 114, 77, 97, 110>>
    /\ call.result.value.security_checks.is_common
    /\ call.result.value.strength_score = 42

\* C8: a password of 12 or more characters with all four categories is
\* reported with the four has_* booleans true, not common, and a score of
\* at least 60.
C8_ComplexScoresHigh ==
    (Analyzed /\ Len(call.arg) >= 12 /\ HasAllCategories(call.arg)) =>
        /\ call.result.exception = "none"
        /\ call.result.value.character_analysis.has_lowercase
        /\ call.result.value.character_analysis.has_uppercase
        /\ call.result.value.character_analysis.has_digits
        /\ call.result.value.character_analysis.has_special
        /\ ~call.result.value.security_checks.is_common
        /\ call.result.value.strength_score >= 60

\* C9: the empty password is reported with entropy 0, crack time 'Instant',
\* the four counts 0, the four booleans false and no unique character;
\* _calculate_entropy is 0 for the empty password and positive for every
\* other one.
C9_EntropyZeroIffEmpty ==
    /\ (Analyzed /\ call.arg = <<>>) =>
          /\ call.result.exception = "none"
          /\ call.result.value.entropy = 0
          /\ call.result.value.crack_time = "Instant"
          /\ call.result.value.character_analysis =
                [ lowercase |-> 0, uppercase |-> 0, digits |-> 0, special |-> 0,
                  has_lowercase |-> FALSE, has_uppercase |-> FALSE,
                  has_digits |-> FALSE, has_special |-> FALSE,
                  unique_chars |-> 0 ]
    /\ call.fn = "_calculate_entropy" =>
          (call.result.value = 0 <=> call.arg = <<>>) /\ call.result.value >= 0
    /\ Reported => (call.result.value.entropy = 0 <=> call.arg = <<>>)

\* analyze_password('') returned.
C9_Witness == Reported /\ call.arg = <<>>

\* Categories, length and entropy of every password of the model.
EntropyProfiles ==
    {[categories |-> Categories(p), length |-> Len(p),
      entropy |-> _calculate_entropy(p)] : p \in Passwords}

\* C10: of two passwords with the same categories present, the longer one
\* has the strictly greater (rounded) entropy.
C10_EntropyMonotone ==
    call.fn = "_calculate_entropy" =>
        \A t \in EntropyProfiles :
            t.categories = Categories(call.arg) =>
                /\ t.length > Len(call.arg) => t.entropy > call.result.value
                /\ t.length < Len(call.arg) => t.entropy < call.result.value

\* _calculate_entropy was called on a password that has a longer and a
\* shorter one with the same categories.
C10_Witness ==
    /\ call.fn = "_calculate_entropy"
    /\ \E t \in EntropyProfiles :
          t.categories = Categories(call.arg) /\ t.length > Len(call.arg)
    /\ \E t \in EntropyProfiles :
          t.categories = Categories(call.arg) /\ t.length < Len(call.arg)

\* The indices whose three characters have the codes c, c+1, c+2.
AscendingAt(s) ==
    {i \in 1..(Len(s) - 2) : s[i + 1] = s[i] + 1 /\ s[i + 2] = s[i] + 2}

\* The k-th smallest element of a set of numbers.
NthOf(S, k) == CHOOSE i \in S : Cardinality({j \in S : j < i}) = k - 1

\* C11: the sequential findings are, from left to right, the window
\* password[i..i+2] of every index i whose characters have the codes c, c+1,
\* c+2, and nothing else: 'abcd' gives 'abc' and 'bcd', 'abcXYZ123' gives
\* 'abc' and '123' (among its findings), 'cba' gives nothing.
C11_SequentialWindows ==
    Reported =>
        LET s == call.arg
            found == call.result.value.pattern_analysis.sequential
        IN  /\ Len(found) = Cardinality(AscendingAt(s))
            /\ \A k \in 1..Len(found) :
                  found[k] = SubSeq(s, NthOf(AscendingAt(s), k),
                                    NthOf(AscendingAt(s), k) + 2)
            /\ s = <<97, 98, 99, 100>>
                  => found = << <<97, 98, 99>>, <<98, 99, 100>> >>
            /\ s = <<97, 98, 99, 88, 89, 90, 49, 50, 51>>
                  => /\ \E k \in DOMAIN found : found[k] = <<97, 98, 99>>
                     /\ \E k \in DOMAIN found : found[k] = <<49, 50, 51>>
            /\ s = <<99, 98, 97>> => found = <<>>

\* 'abcd' was analysed and two windows were found.
C11_Witness ==
    /\ Reported
    /\ call.arg = <<97, 98, 99, 100>>
    /\ Len(call.result.value.pattern_analysis.sequential) = 2

\* C12: every character falls into exactly one of the four categories, a
\* non-ASCII character into special only: the four counts add up to the
\* length, and the digits are the ASCII digits.
C12_OneCategoryPerCharacter ==
    Reported =>
        LET s == call.arg
            counts == call.result.value.character_analysis
        IN  /\ counts.lowercase + counts.uppercase + counts.digits
                  + counts.special = Len(s)
            /\ counts.digits = Cardinality({i \in DOMAIN s : s[i] \in 48..57})

\* C13: whatever the interleaving of the concurrent analyze_password calls,
\* the common-password list stays as it was constructed, and every call
\* ends with the outcome that analyze_password gives for its password when
\* it runs alone.
C13_NoCoordinationNeeded ==
    /\ common_passwords = _load_common_passwords
    /\ \A t \in Threads :
          threads[t].pc = "returned"
              => threads[t].result = analyze_password(threads[t].password)

\* A call has returned a report for a password while another call on the
\* same password is between its two reads of the list.
C13_Witness ==
    \E t, u \in Threads :
        /\ t # u
        /\ threads[t].pc = "returned"
        /\ threads[t].result.exception = "none"
        /\ threads[u].pc = "pwned_check"
        /\ threads[u].password = threads[t].password

\* The keys the tests expect in a report.
expected_keys ==
    {"password", "length", "strength_score", "strength_level",
     "character_analysis", "pattern_analysis", "security_checks", "entropy",
     "crack_time", "recommendations"}

\* C14: the report that analyze_password returns, and the body of every
\* successful /analyze response, has all of the ten keys.
C14_ReportHasAllKeys ==
    /\ Reported => expected_keys \subseteq DOMAIN call.result.value
    /\ (IsAnalyzeRequest /\ response.status = 200)
          => expected_keys \subseteq DOMAIN response.body

\* /analyze has answered 200 to 'Hello123!'.
C14_Witness ==
    /\ IsAnalyzeRequest
    /\ response.status = 200
    /\ PasswordOf(request.json) = <<72, 101, 108, 108, 111, 49, 50, 51, 33>>

\* The point total S of a report as C15 states it, in quarter points.
StatedTotal4(r) ==
    LET Band(x, bands) ==
            IF x >= bands[1][1] THEN bands[1][2]
            ELSE IF x >= bands[2][1] THEN bands[2][2]
            ELSE IF x >= bands[3][1] THEN bands[3][2]
            ELSE IF x >= bands[4][1] THEN bands[4][2]
            ELSE 0
        Points(cond, n) == IF cond THEN 4 * n ELSE 0
    IN  4 * Band(r.length, <<<<12, 25>>, <<8, 15>>, <<6, 10>>, <<4, 5>>>>)
        + 25 * Cardinality({k \in {"has_lowercase", "has_uppercase",
                                   "has_digits", "has_special"} :
                               r.character_analysis[k]})
        + 4 * Band(r.entropy,
                   <<<<6000, 20>>, <<4000, 15>>, <<2500, 10>>, <<1500, 5>>>>)
        + Points(~r.security_checks.is_common, 10)
        + Points(~r.security_checks.pwned_check, 10)
        + Points(r.security_checks.meets_basic_requirements.all_met, 10)
        - Points(r.pattern_analysis.repeated_chars # <<>>, 5)
        - Points(r.pattern_analysis.sequential # <<>>, 10)
        - Points(r.pattern_analysis.keyboard_patterns # <<>>, 10)
        - Points(r.pattern_analysis.dictionary_words # <<>>, 15)

\* C15: the score is round(S) clamped to [0,100], S being the stated sum of
\* length band, 6.25 per category, entropy band, security bonuses and
\* penalties; round takes the nearest integer and, of two equally near, the
\* even one.  The substitution hints and the personal-info finding do not
\* change the score.
C15_ScoreIsStatedSum ==
    Reported =>
        LET r == call.result.value
            S4 == StatedTotal4(r)
        IN  /\ \E n \in -40..100 :
                  /\ 4 * n - S4 \in -2..2
                  /\ 4 * n - S4 \in {-2, 2} => n % 2 = 0
                  /\ r.strength_score = (IF n < 0 THEN 0 ELSE n)
            /\ _calculate_strength_score(
                  [r EXCEPT !.pattern_analysis.common_substitutions = <<>>,
                            !.security_checks.contains_personal_info = ~@])
               = r.strength_score

\* A report with a personal-info finding and substitution hints and the
\* score 95 ('MyS3cur3P@ssw0rd!2024').
C15_Witness ==
    /\ Reported
    /\ call.result.value.security_checks.contains_personal_info
    /\ call.result.value.pattern_analysis.common_substitutions # <<>>
    /\ call.result.value.strength_score = 95

\* A report whose total ends in .5: 42.5 gives the score 42 ('SuperMan').
RoundedHalfToEven ==
    /\ Reported
    /\ StatedTotal4(call.result.value) = 170
    /\ call.result.value.strength_score = 42

\* The recommendations of a report as C16 states them.
StatedRecommendations(r) ==
    LET Advisory(cond, text) == IF cond THEN <<text>> ELSE <<>>
    IN  Advisory(r.length < 8, "Use at least 8 characters")
        \o Advisory(r.length >= 8 /\ r.length < 12,
                    "Consider using 12+ characters for better security")
        \o Advisory(~r.character_analysis.has_uppercase, "Add uppercase letters")
        \o Advisory(~r.character_analysis.has_lowercase, "Add lowercase letters")
        \o Advisory(~r.character_analysis.has_digits, "Add numbers")
        \o Advisory(~r.character_analysis.has_special,
                    "Add special characters (!@#$%^&*)")
        \o Advisory(r.security_checks.is_common, "Avoid common passwords")
        \o Advisory(r.pattern_analysis.repeated_chars # <<>>,
                    "Avoid repeated characters")
        \o Advisory(r.pattern_analysis.sequential # <<>>,
                    "Avoid sequential patterns (abc, 123)")
        \o Advisory(r.pattern_analysis.keyboard_patterns # <<>>,
                    "Avoid keyboard patterns (qwerty, asdf)")
        \o Advisory(r.pattern_analysis.dictionary_words # <<>>,
                    "Avoid dictionary words")

\* C16: the recommendations are never empty; they are the advisories that
\* apply, in the stated order (one length advisory at most, the missing
\* categories, the common password, the findings), and the 'Excellent
\* password' message exactly when no advisory applies, then alone.
C16_RecommendationsInOrder ==
    Reported =>
        LET r == call.result.value
            excellent == "Excellent password! Consider changing it regularly."
        IN  /\ r.recommendations # <<>>
            /\ StatedRecommendations(r) # <<>>
                  => r.recommendations = StatedRecommendations(r)
            /\ StatedRecommendations(r) = <<>>
                  => r.recommendations = <<excellent>>
            /\ (\E k \in DOMAIN r.recommendations :
                    r.recommendations[k] = excellent)
                  <=> StatedRecommendations(r) = <<>>

\* A report with eight advisories, the second length advisory first
\* ('password123').
C16_Witness ==
    /\ Reported
    /\ Len(call.result.value.recommendations) = 8
    /\ call.result.value.recommendations[1] =
          "Consider using 12+ characters for better security"

\* A report with the 'Excellent password' message ('Xk7#mQ2$vL9!').
ExcellentReported ==
    /\ Reported
    /\ call.result.value.recommendations =
          <<"Excellent password! Consider changing it regularly.">>

\* C17: the point total lies between 0 and 100 before it is clamped, so
\* the clamp changes nothing: the score is the rounded total.
C17_ClampChangesNothing ==
    Reported =>
        /\ RawScore4(call.result.value) >= 0
        /\ RawScore4(call.result.value) <= 400
        /\ call.result.value.strength_score
              = PyRound4(RawScore4(call.result.value))

\* A report with all four penalties and a total of 2.5 ('password123').
C17_Witness ==
    /\ Reported
    /\ call.result.value.pattern_analysis.repeated_chars # <<>>
    /\ call.result.value.pattern_analysis.sequential # <<>>
    /\ call.result.value.pattern_analysis.keyboard_patterns # <<>>
    /\ call.result.value.pattern_analysis.dictionary_words # <<>>
    /\ RawScore4(call.result.value) = 10

\* A report with the total 100 ('Xk7#mQ2$vL9!').
FullTotalReported == Reported /\ RawScore4(call.result.value) = 400

====
